---- MODULE Spec2Model ----
(***************************************************************************)
(* Model of binance_trade_bot/binance_stream_manager.py:                   *)
(* BinanceStreamManager (constructor, retry, the two start functions, the  *)
(* two message callbacks, close), BinanceOrder, BinanceCache and           *)
(* CustomBinanceSocketManager._start_socket.                               *)
(*                                                                         *)
(* Two threads exist: the caller's thread (constructor, close) and the     *)
(* socket manager's reactor thread, which runs the callbacks one at a      *)
(* time.  A start sequence (_start_*_socket with its nested retry calls)   *)
(* is run by the constructor or by a callback that handles an in-band      *)
(* error; it blocks its thread in time.sleep and in the transport call, so *)
(* its position is part of the state.                                      *)
(***************************************************************************)
EXTENDS Integers, Sequences, FiniteSets, TLC

\* ---------------------------------------------------------------- bounds
MaxLen == 2            \* longest ticker array / balance array in one message
MaxDepth == 2          \* nested retry calls explored in one start sequence

\* ------------------------------------------------------ program constants
MaxAttempts == 20      \* retry: while attempts < 20

\* ------------------------------------------------------------ the values
None == "None"
False == "False"
Truthy(v) == v \notin {None, False}

TickerPath == "!ticker@arr"
UserPath == "listenKey"
Paths == {TickerPath, UserPath}
PathOf(kind) == IF kind = "ticker" THEN TickerPath ELSE UserPath

Symbols == {"BTCUSDT", "ETHUSDT"}
Assets == {"BTC", "USDT"}
OrderIds == {1, 2}
NumStrs == {"1", "2.0", "x"}
\* symbols the rest of the program has put into cache.non_existent_tickers
InvalidSymbols == {"XRPBNB"}

EmptyMap == [x \in {} |-> 0]
Put(f, k, v) == [x \in (DOMAIN f) \cup {k} |-> IF x = k THEN v ELSE f[x]]
Del(f, k) == [x \in (DOMAIN f) \ {k} |-> f[x]]

\* float(s): the number a numeric string denotes, NaF where float raises
NaF == -1
ParseFloat(s) == CASE s = "1" -> 1
                   [] s = "2.0" -> 2
                   [] OTHER -> NaF

\* ------------------------------------------------------------- messages
SeqsUpTo(S, n) == UNION {[1..k -> S] : k \in 0..n}

TickerItems == [s : Symbols, c : NumStrs]
TickerErrorMsg == [e |-> "error"]
TickerArrays == {[arr |-> l] : l \in SeqsUpTo(TickerItems, MaxLen)}
TickerMsgs == {TickerErrorMsg} \cup TickerArrays

BalanceItems == [a : Assets, f : NumStrs]
UserErrorMsg == [e |-> "error"]
PositionMsgs == {[e |-> "outboundAccountPosition", B |-> l] :
                    l \in SeqsUpTo(BalanceItems, MaxLen)}
BalanceUpdateMsgs == {[e |-> "balanceUpdate", a |-> a] : a \in Assets}
ReportVariants == {<<"NEW", "1", "1">>, <<"FILLED", "2.0", "1">>,
                   <<"NEW", "x", "1">>, <<"NEW", "1", "x">>}
ReportMsgs == {[e |-> "executionReport", s |-> "BTCUSDT", S |-> "BUY",
                o |-> "LIMIT", i |-> i, Z |-> v[2], X |-> v[1], p |-> v[3],
                T |-> 1] : i \in OrderIds, v \in ReportVariants}
OtherMsgs == {[e |-> "listStatus"]}
UserMsgs == {UserErrorMsg} \cup PositionMsgs \cup BalanceUpdateMsgs
               \cup ReportMsgs \cup OtherMsgs

\* the messages delivered while the connection lifecycle is explored
CoreTickerArrays == {[arr |-> <<[s |-> "BTCUSDT", c |-> "1"]>>]}
CoreTickerMsgs == {TickerErrorMsg} \cup CoreTickerArrays
CoreUserUpdates ==
  {[e |-> "outboundAccountPosition", B |-> <<[a |-> "BTC", f |-> "1"]>>],
   [e |-> "balanceUpdate", a |-> "BTC"],
   [e |-> "executionReport", s |-> "BTCUSDT", S |-> "BUY", o |-> "LIMIT",
    i |-> 1, Z |-> "1", X |-> "NEW", p |-> "1", T |-> 1],
   [e |-> "listStatus"]}
CoreUserMsgs == {UserErrorMsg} \cup CoreUserUpdates

NoMsg == [e |-> "none"]

VARIABLES
  main,                          \* caller's thread: position in __init__
  loop,                          \* the reactor (background event loop)
  conns,                         \* bm._conns: the paths with a connection
  sockets,                       \* open connections made by connectWS, per path
  ticker_price_socket_conn_key,  \* self.ticker_price_socket_conn_key
  user_socket_conn_key,          \* self.user_socket_conn_key
  ticker_values,                 \* cache.ticker_values
  balances,                      \* cache.balances
  non_existent_tickers,          \* cache.non_existent_tickers
  orders,                        \* cache.orders
  seq,                           \* the start sequence in progress
  handler,                       \* the callback the reactor thread is in
  last,                          \* the operation that made the last step
  latest                         \* history: latest price per symbol

vars == <<main, loop, conns, sockets, ticker_price_socket_conn_key,
          user_socket_conn_key, ticker_values, balances,
          non_existent_tickers, orders, seq, handler, last, latest>>

cache == <<ticker_values, balances, non_existent_tickers, orders>>
keys == <<ticker_price_socket_conn_key, user_socket_conn_key>>

\* ------------------------------------------------------- start sequences
IdleSeq == [kind |-> "none", pc |-> "idle", depth |-> 0, attempts |-> 0,
            calls |-> 0, warnings |-> 0, infos |-> 0, infoAt |-> 0,
            sleeps |-> 0, result |-> None]
NewSeq(kind) == [IdleSeq EXCEPT !.kind = kind, !.pc = "call"]

IdleHandler == [pc |-> "idle", kind |-> "none", stopped |-> <<>>,
                restarts |-> 0]

\* last: the operation, its message, what it found (before) and how it ended
Op(name, msg, before, fault) ==
  [op |-> name, msg |-> msg, before |-> before, fault |-> fault]

start_socket_replaces(path, cs) ==
  [ret |-> path, conns |-> cs \cup {path}, opened |-> TRUE]

\* CustomBinanceSocketManager._start_socket: refuses a path that already has
\* a connection, otherwise connects and returns the path
start_socket(path, cs) ==
  IF path \in cs THEN [ret |-> False, conns |-> cs, opened |-> FALSE]
  ELSE [ret |-> path, conns |-> cs \cup {path}, opened |-> TRUE]

stop_socket_kept(key, cs) == cs

\* bm.stop_socket(conn_key): drops the connection when there is one
stop_socket(key, cs) == cs \ {key}

\* the open connections: connectWS of line 29 opens one for its path, and
\* stopping a path of bm._conns disconnects the one the dict holds for it
NoSockets == [p \in Paths |-> 0]
Opened(socks, path) == [socks EXCEPT ![path] = @ + 1]
Disconnected(socks, stopped) ==
  [p \in Paths |-> IF p \in stopped /\ socks[p] > 0 THEN socks[p] - 1
                   ELSE socks[p]]

\* What one call of bm.start_ticker_socket / bm.start_user_socket gives:
\* it reaches _start_socket ("connect"), returns no handle ("null"), or
\* raises ("raise").
Outcomes == {"connect", "null", "raise"}
StartOutcome(path, cs, outcome) ==
  CASE outcome = "connect" -> [start_socket(path, cs) EXCEPT !.ret = @]
    [] outcome = "null" -> [ret |-> None, conns |-> cs, opened |-> FALSE]
    [] OTHER -> [ret |-> "raise", conns |-> cs, opened |-> FALSE]

\* retry's except clause (lines 73-77) and the loop test of line 70
RetryExcept(q) ==
  LET a == q.attempts + 1 IN
  [q EXCEPT !.warnings = @ + 1,
            !.infos = IF q.attempts = 0 THEN @ + 1 ELSE @,
            !.infoAt = IF q.attempts = 0 /\ q.infos = 0 THEN q.calls + 1 ELSE @,
            !.attempts = a,
            !.calls = @ + 1,
            !.pc = IF a < MaxAttempts THEN "call" ELSE "done",
            !.result = None]

\* _start_ticker_values_socket / _start_user_socket, lines 81-85 / 88-92:
\* one call of the transport's start.  A handle is returned through every
\* enclosing retry (line 72 returns what func returns); no handle enters
\* retry (line 85 / 92); an exception is caught by the innermost retry, and
\* propagates to the caller of the sequence when there is none.
StartCall(outcome) ==
  /\ seq.pc = "call"
  /\ LET r == StartOutcome(PathOf(seq.kind), conns, outcome) IN
       /\ r.ret = "raise" => seq.depth > 0
       /\ (r.ret # "raise" /\ ~Truthy(r.ret)) => seq.depth < MaxDepth
       /\ conns' = r.conns
       /\ sockets' = IF r.opened THEN Opened(sockets, PathOf(seq.kind))
                     ELSE sockets
       /\ seq' = IF r.ret = "raise" THEN RetryExcept(seq)
                 ELSE IF Truthy(r.ret)
                   THEN [seq EXCEPT !.calls = @ + 1, !.pc = "done",
                                    !.result = r.ret]
                   ELSE [seq EXCEPT !.calls = @ + 1, !.pc = "sleep",
                                    !.depth = @ + 1, !.attempts = 0]
  /\ last' = Op("start", NoMsg, "", "none")
  /\ UNCHANGED <<main, loop, keys, cache, handler, latest>>

\* retry, lines 68-69: attempts = 0; time.sleep(1 + attempts * 5)
RetrySleep ==
  /\ seq.pc = "sleep"
  /\ seq' = [seq EXCEPT !.sleeps = @ + 1, !.pc = "call"]
  /\ last' = Op("sleep", NoMsg, "", "none")
  /\ UNCHANGED <<main, loop, conns, sockets, keys, cache, handler, latest>>

CtorTicker_starts_loop ==
  /\ main = "ctor" /\ seq.kind = "ticker" /\ seq.pc = "done"
  /\ ticker_price_socket_conn_key' = seq.result
  /\ seq' = NewSeq("user")
  /\ loop' = "starting"
  /\ last' = Op("ctor_ticker", NoMsg, "", "none")
  /\ UNCHANGED <<main, conns, sockets, user_socket_conn_key, cache, handler,
                 latest>>

\* ------------------------------------------------------------ __init__
\* line 62: the ticker sequence has returned; line 63 begins the user one
CtorTicker ==
  /\ main = "ctor" /\ seq.kind = "ticker" /\ seq.pc = "done"
  /\ ticker_price_socket_conn_key' = seq.result
  /\ seq' = NewSeq("user")
  /\ last' = Op("ctor_ticker", NoMsg, "", "none")
  /\ UNCHANGED <<main, loop, conns, sockets, user_socket_conn_key, cache, handler,
                 latest>>

\* line 63: the user sequence has returned; line 65: bm.start() starts the
\* thread that will run the reactor
CtorUser ==
  /\ main = "ctor" /\ seq.kind = "user" /\ seq.pc = "done"
  /\ user_socket_conn_key' = seq.result
  /\ seq' = IdleSeq
  /\ loop' = "starting"
  /\ main' = "ready"
  /\ last' = Op("ctor_user", NoMsg, "", "none")
  /\ UNCHANGED <<conns, sockets, ticker_price_socket_conn_key, cache, handler, latest>>

\* lines 62 / 63: the transport raises outside every retry, so the exception
\* leaves __init__ and no manager is constructed
CtorRaise ==
  /\ main = "ctor" /\ seq.pc = "call" /\ seq.depth = 0
  /\ main' = "failed"
  /\ seq' = [seq EXCEPT !.calls = @ + 1, !.pc = "raised"]
  /\ last' = Op("ctor", NoMsg, "", "Exception")
  /\ UNCHANGED <<loop, conns, sockets, keys, cache, handler, latest>>

\* BinanceSocketManager.run: the thread started in line 65 enters reactor.run
ReactorRun ==
  /\ loop = "starting"
  /\ loop' = "running"
  /\ last' = Op("run", NoMsg, "", "none")
  /\ UNCHANGED <<main, conns, sockets, keys, cache, seq, handler, latest>>

Deliverable_reentrant(path) ==
  /\ loop = "running"
  /\ path \in conns

\* --------------------------------------------------------- the callbacks
\* The reactor dispatches a message of a path that has a connection, one
\* callback at a time.
Deliverable(path) ==
  /\ loop = "running"
  /\ handler.pc = "idle"
  /\ path \in conns

IsError(msg) == "e" \in DOMAIN msg /\ msg.e = "error"

RECURSIVE process_ticker_items_first(_, _, _)
process_ticker_items_first(tv, items, i) ==
  IF i > Len(items) THEN [map |-> tv, fault |-> "none"]
  ELSE IF ParseFloat(items[i].c) = NaF THEN [map |-> tv, fault |-> "ValueError"]
  ELSE process_ticker_items_first(
         IF items[i].s \in DOMAIN tv THEN tv
         ELSE Put(tv, items[i].s, ParseFloat(items[i].c)), items, i + 1)

\* lines 102-103: for ticker in msg: ticker_values[ticker["s"]] = float(ticker["c"])
RECURSIVE process_ticker_items(_, _, _)
process_ticker_items(tv, items, i) ==
  IF i > Len(items) THEN [map |-> tv, fault |-> "none"]
  ELSE IF ParseFloat(items[i].c) = NaF THEN [map |-> tv, fault |-> "ValueError"]
  ELSE process_ticker_items(Put(tv, items[i].s, ParseFloat(items[i].c)),
                            items, i + 1)

\* history: the latest price of each symbol mentioned since the collection was
\* last emptied; not valid once a message was not well-formed
WellFormedTicker(msg) == \A i \in DOMAIN msg.arr : ParseFloat(msg.arr[i].c) # NaF
LastIndex(items, s) ==
  CHOOSE i \in DOMAIN items :
    /\ items[i].s = s
    /\ \A j \in DOMAIN items : items[j].s = s => j <= i
Mentioned(items) == {items[i].s : i \in DOMAIN items}
NoHistory == [valid |-> TRUE, map |-> EmptyMap]
LatestAfter(h, msg) ==
  IF ~h.valid \/ ~WellFormedTicker(msg) THEN [valid |-> FALSE, map |-> EmptyMap]
  ELSE [valid |-> TRUE,
        map |-> [s \in (DOMAIN h.map) \cup Mentioned(msg.arr) |->
                   IF s \in Mentioned(msg.arr)
                   THEN ParseFloat(msg.arr[LastIndex(msg.arr, s)].c)
                   ELSE h.map[s]]]

TickerError_stops_all(msg) ==
  /\ Deliverable(TickerPath)
  /\ IsError(msg)
  /\ conns' = {}
  /\ sockets' = Disconnected(sockets, conns \ conns')
  /\ handler' = [pc |-> "restart", kind |-> "ticker",
                 stopped |-> <<ticker_price_socket_conn_key>>, restarts |-> 1]
  /\ seq' = NewSeq("ticker")
  /\ last' = Op("ticker", msg, "", "none")
  /\ UNCHANGED <<main, loop, keys, cache, latest>>

\* _process_ticker_values, lines 95-98: an in-band error stops the socket and
\* enters the start sequence
TickerError(msg) ==
  /\ Deliverable(TickerPath)
  /\ IsError(msg)
  /\ conns' = stop_socket(ticker_price_socket_conn_key, conns)
  /\ sockets' = Disconnected(sockets, conns \ conns')
  /\ handler' = [pc |-> "restart", kind |-> "ticker",
                 stopped |-> <<ticker_price_socket_conn_key>>, restarts |-> 1]
  /\ seq' = NewSeq("ticker")
  /\ last' = Op("ticker", msg, "", "none")
  /\ UNCHANGED <<main, loop, keys, cache, latest>>

\* _process_ticker_values, lines 102-103
TickerUpdate(msg) ==
  /\ Deliverable(TickerPath)
  /\ ~IsError(msg)
  /\ LET r == process_ticker_items(ticker_values, msg.arr, 1) IN
       /\ ticker_values' = r.map
       /\ last' = Op("ticker", msg, "", r.fault)
  /\ latest' = LatestAfter(latest, msg)
  /\ UNCHANGED <<main, loop, conns, sockets, keys, balances, non_existent_tickers,
                 orders, seq, handler>>

RECURSIVE process_balance_items_reset(_, _, _)
process_balance_items_reset(bs, items, i) ==
  IF i > Len(items) THEN [map |-> bs, fault |-> "none"]
  ELSE IF ParseFloat(items[i].f) = NaF THEN [map |-> bs, fault |-> "ValueError"]
  ELSE process_balance_items_reset(
         Put(IF i = 1 THEN EmptyMap ELSE bs, items[i].a, ParseFloat(items[i].f)),
         items, i + 1)

\* lines 113-114: for bal in msg["B"]: balances[bal["a"]] = float(bal["f"])
RECURSIVE process_balance_items(_, _, _)
process_balance_items(bs, items, i) ==
  IF i > Len(items) THEN [map |-> bs, fault |-> "none"]
  ELSE IF ParseFloat(items[i].f) = NaF THEN [map |-> bs, fault |-> "ValueError"]
  ELSE process_balance_items(Put(bs, items[i].a, ParseFloat(items[i].f)),
                             items, i + 1)

\* BinanceOrder.__init__, lines 34-43; float(event["Z"]) and float(event["p"])
\* raise ValueError on a string that is no number
BinanceOrderFault(event) ==
  ParseFloat(event.Z) = NaF \/ ParseFloat(event.p) = NaF
BinanceOrder(event) ==
  [event |-> event, symbol |-> event.s, side |-> event.S,
   order_type |-> event.o, id |-> event.i,
   cumulative_quote_qty |-> ParseFloat(event.Z), status |-> event.X,
   price |-> ParseFloat(event.p), transaction_time |-> event.T]

\* _process_user_socket, lines 107-109
UserError(msg) ==
  /\ Deliverable(UserPath)
  /\ msg.e = "error"
  /\ conns' = stop_socket(user_socket_conn_key, conns)
  /\ sockets' = Disconnected(sockets, conns \ conns')
  /\ handler' = [pc |-> "restart", kind |-> "user",
                 stopped |-> <<user_socket_conn_key>>, restarts |-> 1]
  /\ seq' = NewSeq("user")
  /\ last' = Op("user", msg, "", "none")
  /\ UNCHANGED <<main, loop, keys, cache, latest>>

\* _process_user_socket, lines 112-114
UserPosition(msg) ==
  /\ Deliverable(UserPath)
  /\ msg.e = "outboundAccountPosition"
  /\ LET r == process_balance_items(balances, msg.B, 1) IN
       /\ balances' = r.map
       /\ last' = Op("user", msg, "", r.fault)
  /\ UNCHANGED <<main, loop, conns, sockets, keys, ticker_values,
                 non_existent_tickers, orders, seq, handler, latest>>

Found(d, k) == IF k \in DOMAIN d THEN "present" ELSE "absent"
PriorStatus(os, id) == IF id \in DOMAIN os THEN os[id].status ELSE "absent"

del_item_zero(d, k) ==
  IF k \in DOMAIN d THEN [map |-> Put(d, k, 0), fault |-> "none"]
  ELSE [map |-> d, fault |-> "KeyError"]

del_item_silent(d, k) == [map |-> Del(d, k), fault |-> "none"]

\* del d[k] of line 116: KeyError when k is absent
del_item(d, k) ==
  IF k \in DOMAIN d THEN [map |-> Del(d, k), fault |-> "none"]
  ELSE [map |-> d, fault |-> "KeyError"]

\* _process_user_socket, lines 115-116
UserBalanceUpdate(msg) ==
  /\ Deliverable(UserPath)
  /\ msg.e = "balanceUpdate"
  /\ LET r == del_item(balances, msg.a) IN
       /\ balances' = r.map
       /\ last' = Op("user", msg, Found(balances, msg.a), r.fault)
  /\ UNCHANGED <<main, loop, conns, sockets, keys, ticker_values,
                 non_existent_tickers, orders, seq, handler, latest>>

store_order_first(os, order) ==
  IF order.id \in DOMAIN os THEN os ELSE Put(os, order.id, order)

\* orders[order.id] = order of line 119
store_order(os, order) == Put(os, order.id, order)

\* _process_user_socket, lines 117-119
UserReport(msg) ==
  /\ Deliverable(UserPath)
  /\ msg.e = "executionReport"
  /\ IF BinanceOrderFault(msg)
     THEN /\ orders' = orders
          /\ last' = Op("user", msg, PriorStatus(orders, msg.i), "ValueError")
     ELSE /\ orders' = store_order(orders, BinanceOrder(msg))
          /\ last' = Op("user", msg, PriorStatus(orders, msg.i), "none")
  /\ UNCHANGED <<main, loop, conns, sockets, keys, ticker_values, balances,
                 non_existent_tickers, seq, handler, latest>>

UserOther_restarts(msg) ==
  /\ Deliverable(UserPath)
  /\ msg.e \notin {"error", "outboundAccountPosition", "balanceUpdate",
                   "executionReport"}
  /\ conns' = stop_socket(user_socket_conn_key, conns)
  /\ sockets' = Disconnected(sockets, conns \ conns')
  /\ handler' = [pc |-> "restart", kind |-> "user",
                 stopped |-> <<user_socket_conn_key>>, restarts |-> 1]
  /\ seq' = NewSeq("user")
  /\ last' = Op("user", msg, "", "none")
  /\ UNCHANGED <<main, loop, keys, cache, latest>>

\* _process_user_socket, lines 105-119: no branch matches the discriminant
UserOther(msg) ==
  /\ Deliverable(UserPath)
  /\ msg.e \notin {"error", "outboundAccountPosition", "balanceUpdate",
                   "executionReport"}
  /\ last' = Op("user", msg, "", "none")
  /\ UNCHANGED <<main, loop, conns, sockets, keys, cache, seq, handler, latest>>

NonEmpty(d) == IF DOMAIN d = {} THEN "empty" ELSE "nonempty"

clear_kept(d) == d

\* cache.ticker_values.clear() / cache.balances.clear(), lines 99 / 110
clear(d) == EmptyMap

RestartReturn_resets_cache ==
  /\ handler.pc = "restart" /\ seq.pc = "done"
  /\ IF handler.kind = "ticker"
     THEN /\ ticker_price_socket_conn_key' = seq.result
          /\ UNCHANGED user_socket_conn_key
     ELSE /\ user_socket_conn_key' = seq.result
          /\ UNCHANGED ticker_price_socket_conn_key
  /\ ticker_values' = EmptyMap
  /\ balances' = EmptyMap
  /\ orders' = EmptyMap
  /\ non_existent_tickers' = {}
  /\ latest' = NoHistory
  /\ handler' = [handler EXCEPT !.pc = "idle"]
  /\ seq' = IdleSeq
  /\ last' = Op("restarted", [e |-> "error"],
               NonEmpty(IF handler.kind = "ticker" THEN ticker_values
                        ELSE balances), "none")
  /\ UNCHANGED <<main, loop, conns, sockets>>

\* lines 98-100 / 109-111: the start sequence has returned to the callback,
\* which assigns the handle and then clears its collection
RestartReturn ==
  /\ handler.pc = "restart" /\ seq.pc = "done"
  /\ IF handler.kind = "ticker"
     THEN /\ ticker_price_socket_conn_key' = seq.result
          /\ ticker_values' = clear(ticker_values)
          /\ latest' = NoHistory
          /\ UNCHANGED <<user_socket_conn_key, balances>>
     ELSE /\ user_socket_conn_key' = seq.result
          /\ balances' = clear(balances)
          /\ UNCHANGED <<ticker_price_socket_conn_key, ticker_values, latest>>
  /\ handler' = [handler EXCEPT !.pc = "idle"]
  /\ seq' = IdleSeq
  /\ last' = Op("restarted", [e |-> "error"],
               NonEmpty(IF handler.kind = "ticker" THEN ticker_values
                        ELSE balances), "none")
  /\ UNCHANGED <<main, loop, conns, sockets, non_existent_tickers, orders>>

\* lines 98 / 109: the transport raises outside every retry, so the exception
\* leaves the callback before the assignment and the clear
RestartRaise ==
  /\ handler.pc = "restart" /\ seq.pc = "call" /\ seq.depth = 0
  /\ handler' = [handler EXCEPT !.pc = "idle"]
  /\ seq' = IdleSeq
  /\ last' = Op("restarted", [e |-> "error"], "", "Exception")
  /\ UNCHANGED <<main, loop, conns, sockets, keys, cache, latest>>

\* close, lines 121-123: bm.close() stops every socket; reactor.stop() stops
\* the loop and raises ReactorNotRunning when the reactor is not running
Close_bm_only ==
  /\ main = "ready"
  /\ conns' = {}
  /\ sockets' = Disconnected(sockets, conns)
  /\ last' = Op("close", NoMsg, IF loop = "running" /\ handler.pc = "idle"
                                    /\ ticker_price_socket_conn_key \in conns
                                    /\ user_socket_conn_key \in conns
                                 THEN "active" ELSE "", "none")
  /\ UNCHANGED <<main, loop, keys, cache, seq, handler, latest>>

\* both subscriptions have a live handle and their messages are dispatched
BothActive ==
  /\ loop = "running"
  /\ handler.pc = "idle"
  /\ ticker_price_socket_conn_key \in conns
  /\ user_socket_conn_key \in conns

Close ==
  /\ main = "ready"
  /\ conns' = {}
  /\ sockets' = Disconnected(sockets, conns)
  /\ IF loop = "running"
     THEN /\ loop' = "stopped"
          /\ last' = Op("close", NoMsg,
                       IF BothActive THEN "active" ELSE "", "none")
     ELSE /\ loop' = loop
          /\ last' = Op("close", NoMsg, "", "ReactorNotRunning")
  /\ UNCHANGED <<main, keys, cache, seq, handler, latest>>

Init ==
  /\ main = "ctor"
  /\ loop = "notstarted"
  /\ conns = {}
  /\ sockets = NoSockets
  /\ ticker_price_socket_conn_key = None
  /\ user_socket_conn_key = None
  /\ ticker_values = EmptyMap
  /\ balances = EmptyMap
  /\ non_existent_tickers \in SUBSET InvalidSymbols
  /\ orders = EmptyMap
  /\ seq = NewSeq("ticker")
  /\ handler = IdleHandler
  /\ last = Op("none", NoMsg, "", "none")
  /\ latest = NoHistory

\* the program from the call of the constructor on
Next ==
  \/ \E outcome \in Outcomes : StartCall(outcome)
  \/ RetrySleep
  \/ CtorTicker
  \/ CtorUser
  \/ CtorRaise
  \/ ReactorRun
  \/ \E msg \in CoreTickerMsgs : TickerError(msg)
  \/ \E msg \in CoreTickerMsgs : TickerUpdate(msg)
  \/ \E msg \in CoreUserMsgs : UserError(msg)
  \/ \E msg \in CoreUserMsgs : UserPosition(msg)
  \/ \E msg \in CoreUserMsgs : UserBalanceUpdate(msg)
  \/ \E msg \in CoreUserMsgs : UserReport(msg)
  \/ \E msg \in CoreUserMsgs : UserOther(msg)
  \/ RestartReturn
  \/ RestartRaise
  \/ Close

Spec == Init /\ [][Next]_vars

\* the state after a construction in which both starts succeeded at once and
\* the reactor thread has entered its loop
InitActive ==
  /\ main = "ready"
  /\ loop = "running"
  /\ conns = Paths
  /\ sockets = [p \in Paths |-> 1]
  /\ ticker_price_socket_conn_key = TickerPath
  /\ user_socket_conn_key = UserPath
  /\ ticker_values = EmptyMap
  /\ balances = EmptyMap
  /\ non_existent_tickers = {}
  /\ orders = EmptyMap
  /\ seq = IdleSeq
  /\ handler = IdleHandler
  /\ last = Op("run", NoMsg, "", "none")
  /\ latest = NoHistory

\* the ticker callback on every ticker array, among a few user events
NextTicker ==
  \/ \E msg \in TickerArrays : TickerUpdate(msg)
  \/ \E msg \in CoreUserUpdates : UserPosition(msg)
  \/ \E msg \in CoreUserUpdates : UserReport(msg)

SpecTicker == InitActive /\ [][NextTicker]_vars

\* the user callback on every balance event, among a few other messages
NextUser ==
  \/ \E msg \in UserMsgs : UserPosition(msg)
  \/ \E msg \in UserMsgs : UserBalanceUpdate(msg)
  \/ \E msg \in UserMsgs : UserOther(msg)
  \/ \E msg \in CoreUserUpdates : UserReport(msg)
  \/ \E msg \in CoreTickerArrays : TickerUpdate(msg)

SpecUser == InitActive /\ [][NextUser]_vars

\* the user callback on every execution report, among a few other messages
NextOrders ==
  \/ \E msg \in UserMsgs : UserReport(msg)
  \/ \E msg \in CoreUserUpdates : UserPosition(msg)
  \/ \E msg \in CoreUserUpdates : UserBalanceUpdate(msg)
  \/ \E msg \in CoreTickerArrays : TickerUpdate(msg)

SpecOrders == InitActive /\ [][NextOrders]_vars

\* ------------------------------------------------------------ the claims
\* a start sequence that has returned to its caller, and what it returned
Returned == seq.pc = "done"
Failures == IF Truthy(seq.result) THEN seq.calls - 1 ELSE seq.calls

\* C1: a start sequence in which every attempt of the transport's start
\* failed ends with no handle and never attempts the start a 21st time.
C1_StartBounded ==
  (seq.pc \in {"call", "sleep", "done"} /\ ~Truthy(seq.result))
    => seq.calls <= MaxAttempts

\* C2: a start sequence that returns a handle after k failed attempts,
\* 1 <= k < 20, has logged exactly k warnings and exactly one info, the info
\* carrying the cause of the first failure.
C2_WarningPerFailure ==
  (Returned /\ Truthy(seq.result) /\ Failures \in 1..(MaxAttempts - 1))
    => /\ seq.warnings = Failures
       /\ seq.infos = 1
       /\ seq.infoAt = 1

\* C3: when the callback that handled an in-band error has returned, the
\* collection of its subscription is empty, and it has stopped one handle and
\* entered one start sequence.
C3_ErrorClearsOnce ==
  (last.op = "restarted" /\ last.fault = "none")
    => /\ handler.kind = "ticker" => ticker_values = EmptyMap
       /\ handler.kind = "user" => balances = EmptyMap
       /\ Len(handler.stopped) = 1
       /\ handler.restarts = 1

C3_Witness ==
  /\ last.op = "restarted" /\ last.fault = "none"
  /\ last.before = "nonempty"
  /\ handler.kind = "ticker"
  /\ ticker_values = EmptyMap
  /\ balances # EmptyMap

\* C4: after any sequence of well-formed ticker arrays, ticker_values holds
\* for each symbol the price of the most recent element that names it, and
\* holds nothing for a symbol no element named.
C4_LastWriteWins ==
  latest.valid => ticker_values = latest.map

C4_Witness ==
  /\ last.op = "ticker" /\ latest.valid
  /\ Len(last.msg.arr) = 2
  /\ last.msg.arr[1].s = "BTCUSDT" /\ last.msg.arr[1].c = "1"
  /\ last.msg.arr[2].s = "BTCUSDT" /\ last.msg.arr[2].c = "2.0"
  /\ ticker_values["BTCUSDT"] = 2
  /\ "ETHUSDT" \notin DOMAIN ticker_values

\* the step was made by the user callback on an event of the given kind
UserStep(kind) == last'.op = "user" /\ last'.msg.e = kind

\* the entries of every asset but those of the set are as they were
OtherBalancesKept(listed) ==
  \A b \in Assets \ listed :
    /\ b \in DOMAIN balances' <=> b \in DOMAIN balances
    /\ b \in DOMAIN balances => balances'[b] = balances[b]

Listed(items) == {items[i].a : i \in DOMAIN items}
LastListed(items, a) ==
  CHOOSE i \in DOMAIN items :
    /\ items[i].a = a
    /\ \A j \in DOMAIN items : items[j].a = a => j <= i

\* C5: an outboundAccountPosition event sets the balance of every asset it
\* lists to the listed free amount and leaves the balances of the other
\* assets and the other collections as they were.
C5_PositionFrame ==
  [][(UserStep("outboundAccountPosition") /\ last'.fault = "none")
       => /\ \A a \in Listed(last'.msg.B) :
               /\ a \in DOMAIN balances'
               /\ balances'[a] =
                    ParseFloat(last'.msg.B[LastListed(last'.msg.B, a)].f)
          /\ OtherBalancesKept(Listed(last'.msg.B))
          /\ ticker_values' = ticker_values
          /\ orders' = orders
          /\ non_existent_tickers' = non_existent_tickers]_vars

C5_Witness ==
  /\ last.op = "user" /\ last.msg.e = "outboundAccountPosition"
  /\ last.fault = "none"
  /\ last.msg.B = <<[a |-> "BTC", f |-> "2.0"]>>
  /\ DOMAIN balances = Assets
  /\ balances["BTC"] = 2 /\ balances["USDT"] = 1
  /\ ticker_values # EmptyMap

\* C6: a balanceUpdate event for an asset that has a balance removes that
\* entry and leaves every other balance as it was.
C6_UpdateRemoves ==
  [][(UserStep("balanceUpdate") /\ last'.msg.a \in DOMAIN balances)
       => /\ last'.msg.a \notin DOMAIN balances'
          /\ OtherBalancesKept({last'.msg.a})]_vars

C6_Witness ==
  /\ last.op = "user" /\ last.msg.e = "balanceUpdate"
  /\ last.before = "present" /\ last.msg.a = "BTC"
  /\ DOMAIN balances = {"USDT"}

\* C7: a balanceUpdate event for an asset that has no balance ends in a
\* fault and changes no collection and no handle.
C7_AbsentKeyFaults ==
  [][(UserStep("balanceUpdate") /\ last'.msg.a \notin DOMAIN balances)
       => /\ last'.fault = "KeyError"
          /\ cache' = cache
          /\ keys' = keys
          /\ conns' = conns]_vars

C7_Witness ==
  /\ last.op = "user" /\ last.msg.e = "balanceUpdate"
  /\ last.before = "absent" /\ last.fault = "KeyError"
  /\ last.msg.a = "BTC"
  /\ DOMAIN balances = {"USDT"}

\* C8: an executionReport for an order id that already has a record leaves
\* one record under that id, the one built from this event, and the records
\* of the other ids as they were.
C8_ReportOverwrites ==
  [][(UserStep("executionReport") /\ last'.fault = "none"
        /\ last'.msg.i \in DOMAIN orders)
       => /\ DOMAIN orders' = DOMAIN orders
          /\ orders'[last'.msg.i].event = last'.msg
          /\ orders'[last'.msg.i].status = last'.msg.X
          /\ orders'[last'.msg.i].cumulative_quote_qty = ParseFloat(last'.msg.Z)
          /\ orders'[last'.msg.i] = BinanceOrder(last'.msg)
          /\ \A y \in DOMAIN orders \ {last'.msg.i} : orders'[y] = orders[y]]_vars

C8_Witness ==
  /\ last.op = "user" /\ last.msg.e = "executionReport"
  /\ last.fault = "none" /\ last.before = "NEW"
  /\ last.msg.i = 1 /\ last.msg.X = "FILLED"
  /\ DOMAIN orders = {1, 2}
  /\ orders[1].status = "FILLED" /\ orders[1].cumulative_quote_qty = 2
  /\ orders[2].status = "NEW"
  /\ balances # EmptyMap

\* after a close the loop is stopped, no callback runs and no path has a
\* connection
Released == loop = "stopped" /\ handler.pc = "idle" /\ conns = {}

\* C9: close, called when both subscriptions are active, does not raise and
\* leaves no connection and a stopped loop; from then on no message is
\* translated into the cache.
C9_CloseReleases ==
  /\ [][(last'.op = "close" /\ BothActive)
          => (last'.fault = "none" /\ Released')]_vars
  /\ [][Released => (Released' /\ cache' = cache /\ keys' = keys)]_vars

C9_Witness ==
  /\ last.op = "close" /\ last.before = "active" /\ last.fault = "none"
  /\ Released
  /\ ticker_values # EmptyMap /\ balances # EmptyMap

\* C10: a user event whose discriminant is none of the four handled kinds
\* changes no collection and no handle and starts no restart.
C10_OtherIsNoOp ==
  [][(last'.op = "user"
        /\ last'.msg.e \notin {"error", "outboundAccountPosition",
                               "balanceUpdate", "executionReport"})
       => /\ cache' = cache
          /\ keys' = keys
          /\ conns' = conns
          /\ seq' = seq
          /\ handler' = handler
          /\ last'.fault = "none"]_vars

C10_Witness ==
  /\ last.op = "user" /\ last.msg.e = "listStatus" /\ last.fault = "none"
  /\ balances # EmptyMap /\ orders # EmptyMap
  /\ handler.pc = "idle"

\* the callback of the given subscription is handling an in-band error: it
\* has stopped the socket and its start sequence has not returned to it
Restarting(kind) == handler.pc = "restart" /\ handler.kind = kind

\* C11: while the restart that follows an in-band error is in progress, the
\* collection of the subscription is already empty.
C11_ClearedBeforeStart ==
  /\ Restarting("ticker") => ticker_values = EmptyMap
  /\ Restarting("user") => balances = EmptyMap

\* the handle of a subscription and its connection
KeyOf(kind) == IF kind = "ticker" THEN ticker_price_socket_conn_key
               ELSE user_socket_conn_key
Live(kind) == KeyOf(kind) \in conns /\ PathOf(kind) \in conns

C13_OnePause ==
  /\ seq.sleeps <= 1
  /\ (Returned /\ seq.calls > 1) => seq.sleeps = 1

\* C14: a message whose translation raises a ValueError has applied no part of
\* itself: every cache collection is as it was before the message.
C14_FaultAtomic ==
  [][(last'.op \in {"ticker", "user"} /\ last'.fault = "ValueError")
       => cache' = cache]_vars

\* the steps the callback of one subscription makes for an in-band error:
\* the stop, the calls and sleeps of its start sequence, and its return
ErrorStep(kind) ==
  \/ last'.op = kind /\ IsError(last'.msg)
  \/ last'.op \in {"start", "sleep"} /\ Restarting(kind)
  \/ last'.op = "restarted" /\ handler.kind = kind
Other(kind) == IF kind = "ticker" THEN "user" ELSE "ticker"

\* C15: no step of an in-band error of one subscription changes the other
\* subscription's collection, handle or connection, the orders or the
\* non-existent tickers.
C15_ErrorFrame ==
  [][\A kind \in {"ticker", "user"} :
       ErrorStep(kind) =>
         /\ orders' = orders
         /\ non_existent_tickers' = non_existent_tickers
         /\ KeyOf(Other(kind))' = KeyOf(Other(kind))
         /\ (PathOf(Other(kind)) \in conns') = (PathOf(Other(kind)) \in conns)
         /\ sockets'[PathOf(Other(kind))] = sockets[PathOf(Other(kind))]
         /\ (kind = "ticker" => balances' = balances)
         /\ (kind = "user" => ticker_values' = ticker_values)]_vars

C15_Witness ==
  /\ last.op = "restarted" /\ last.fault = "none"
  /\ handler.kind = "ticker"
  /\ ticker_price_socket_conn_key = TickerPath
  /\ balances # EmptyMap
  /\ orders # EmptyMap
  /\ non_existent_tickers # {}
  /\ user_socket_conn_key \in conns

\* C16: no step removes an order id from the orders or a symbol from the
\* non-existent tickers.
C16_NeverForgets ==
  [][/\ DOMAIN orders \subseteq DOMAIN orders'
     /\ non_existent_tickers \subseteq non_existent_tickers']_vars

C16_Witness ==
  /\ last.op = "close" /\ last.fault = "none"
  /\ handler.restarts = 1 /\ handler.pc = "idle"
  /\ balances = EmptyMap
  /\ orders # EmptyMap
  /\ non_existent_tickers # {}

C18_OneConnection ==
  /\ [](\A p \in Paths : sockets[p] <= 1 /\ (p \in conns <=> sockets[p] = 1))
  /\ [](\A p \in Paths : \A cs \in SUBSET Paths :
          p \in cs => start_socket(p, cs) =
                        [ret |-> False, conns |-> cs, opened |-> FALSE])
  /\ [][(last'.op = "start" /\ handler.pc = "restart")
          => (PathOf(seq.kind) \notin conns /\ sockets[PathOf(seq.kind)] = 0)]_vars

C18_Witness ==
  /\ Restarting("user")
  /\ seq.pc = "done" /\ seq.result = UserPath /\ seq.calls >= 2
  /\ sockets = [p \in Paths |-> 1]

\* C19: in __init__ the user sequence begins only when the ticker sequence
\* has returned, the loop is started only when both have, and no message is
\* handed to a callback before that.
C19_CtorOrder ==
  /\ [](loop # "notstarted" => main = "ready")
  /\ []((main = "ctor" /\ seq.kind = "ticker") => UserPath \notin conns)
  /\ [][(main = "ctor" /\ seq.kind # "user" /\ seq'.kind = "user")
          => (seq.kind = "ticker" /\ seq.pc = "done")]_vars
  /\ [][(last'.op \in {"ticker", "user"})
          => (main = "ready" /\ loop = "running")]_vars

C19_Witness ==
  /\ main = "ctor"
  /\ seq.kind = "user" /\ seq.sleeps >= 1
  /\ ticker_price_socket_conn_key = TickerPath
  /\ loop = "notstarted"

====
